---- MODULE Spec2Model ----
(***************************************************************************)
(* mqtt-record-replay: the recording file format (length-prefixed msgpack  *)
(* frames), the recorder's message_handler and the replay tool's Playback  *)
(* scheduler, modelled at the level of the bytes of the recording file.    *)
(*                                                                         *)
(* Bytes are integers 0..255, a file is a sequence of bytes, a string is   *)
(* the sequence of its bytes.  Time is in milliseconds.                    *)
(***************************************************************************)
EXTENDS Integers, Sequences, FiniteSets, TLC

VARIABLES
    file,             \* content of the recording file (sequence of bytes)
    now,              \* the wall clock, nowMillis()
    faults,           \* the operations that fail in this session's environment
    log,              \* ghost: the diagnostics the process has logged
    frames,           \* ghost: the messages the input file was built from
    damage,           \* ghost: how the input file was damaged, if at all
    \* ---- mqtt-replay
    pc,               \* position of the replay process
    pos,              \* read offset of the open input file
    msg,              \* local msg of Init / PlayNextMessage
    len,              \* local len of Init / PlayNextMessage
    p,                \* the Playback struct
    startTimeSec,     \* flag -s
    endTimeSec,       \* flag -e
    targetWallclock,  \* local targetWallclock of PlayNextMessage
    messagesLeft,     \* local messagesLeft of main
    published,        \* ghost: what the broker client was asked to publish
    entries,          \* ghost: what successive readEntry calls returned
    \* ---- mqtt-record
    recState,         \* state of the recorder process
    hs,               \* the message_handler invocations (one per goroutine)
    msgCnt,           \* global msgCnt
    handled,          \* ghost: messages whose handler invocation returned
    arrived,          \* ghost: number of inbound messages delivered so far
    fd,               \* the output file handle: "none", "open" or "closed"
    wrErrs,           \* ghost: number of file.Write calls that returned an error
    msgStats,         \* global msgStats: topic -> MsgStats
    statsOutput,      \* flag -s of mqtt-record
    mainPc,           \* position of main's report loop
    sleepUntil,       \* wall-clock time at which main's time.Sleep returns
    sigPc,            \* position of the signal goroutine
    reported,         \* ghost: sum of the interval counts main has logged
    \* ---- mqtt-record, the version with the WaitGroup
    wg,               \* counter of the global WaitGroup wg
    recordPc,         \* position of main / mqtt_record
    sigs,             \* ghost: number of signals the signal goroutine received
    \* ---- mqtt-replay, the version with the replay loop inline in main
    inl,              \* the locals of main, its position, and (ghost) what it
                      \* asked the broker client to publish
    \* ---- playback control
    ctl               \* the scheduler's halt state and halt offset, and the
                      \* ghosts haltedMillis (wall-clock time spent halted since
                      \* the anchor), halts, seeks and sigints (how many
                      \* there were)

fileVars == <<file, now, frames, damage>>
playVars == <<pc, pos, msg, len, p, startTimeSec, endTimeSec, targetWallclock,
              messagesLeft, published, entries>>
repVars  == <<statsOutput, mainPc, sleepUntil, sigPc, reported>>
wgVars   == <<wg, recordPc, sigs>>
recVars  == <<recState, hs, msgCnt, handled, arrived, fd, wrErrs, msgStats, repVars,
              wgVars>>
inlVars  == <<inl>>
ctlVars  == <<ctl>>
envVars  == <<faults, log>>
vars     == <<fileVars, playVars, inlVars, recVars, ctlVars, envVars>>

(***************************************************************************)
(* Bounds of the model.                                                    *)
(***************************************************************************)
MaxFrames   == 3      \* frames in a recording
MaxStartSec == 2      \* largest -s
MaxEndSec   == 2      \* largest -e
MaxTicks    == 2      \* clock ticks outside the pacing loop
MaxRecTicks == 1      \* clock ticks of a recording session
MaxReadFrames == 2    \* frames of a file given to the reading loop
MaxReads    == 4      \* readEntry calls of the reading loop
MaxMsgs     == 3      \* inbound messages of a recording session
MaxHandlers == 2      \* goroutines the client library could run handlers on
MaxWrErrs   == 1      \* file.Write calls that return an error in a session
MaxReports  == 2      \* intervals of main's report loop in a session
MaxSignals  == 2      \* signals delivered to the recorder with the WaitGroup
MaxCtlFrames == 2     \* frames in a recording replayed with playback control
MaxHalts    == 1      \* halts of a replay
MaxHaltTicks == 1     \* clock ticks while the replay is halted
MaxSeeks    == 1      \* seeks of a replay

TickStep    == 500    \* granularity of the modelled clock (ms)
Gaps        == {0, 500, 1000}   \* recorded inter-message gaps (ms)
BaseMillis  == 1000   \* timestamp of the first recorded message

Min(a, b) == IF a < b THEN a ELSE b

\* const msgStatsTime int = 5 // report statistics every 5 seconds
msgStatsTime == 5

\* F(v), with v evaluated once: a local variable of the source.  (TLC does
\* not keep the value of a LET definition when it evaluates ENABLED, which
\* the fairness condition of FairSpec needs; a bound variable it does.)
Bind(v, F(_)) == CHOOSE y \in { F(x) : x \in {v} } : TRUE

(***************************************************************************)
(* Topics and payloads (byte strings).                                     *)
(***************************************************************************)
TopicA == <<97>>
TopicB == <<98>>
\* the bodies of the recorded messages, in the order they are recorded
ScenarioBodies == << [Topic |-> TopicA, Payload |-> <<1>>],
                     [Topic |-> TopicB, Payload |-> <<>>],
                     [Topic |-> TopicA, Payload |-> <<171, 205>>] >>
BodyAt(i) == ScenarioBodies[((i - 1) % Len(ScenarioBodies)) + 1]

\* the bodies of the messages a broker delivers to the recorder
Bodies == { ScenarioBodies[i] : i \in 1..Len(ScenarioBodies) }

\* type MqttMessage struct { Millis int64; Topic string; Payload []byte }
MqttMessage(t, topic, payload) ==
    [Millis |-> t, Topic |-> topic, Payload |-> payload]

\* MqttMessage{}: the zero value readEntry returns with -1
ZeroMessage == MqttMessage(0, <<>>, <<>>)

Zeros(n) == [i \in 1..n |-> 0]

(***************************************************************************)
(* encoding/binary: PutVarint into a zeroed buffer of MaxVarintLen64 bytes *)
(* and Varint of such a buffer.                                            *)
(***************************************************************************)
MaxVarintLen64 == 10

\* PutVarint's zig-zag step: ux := uint64(x) << 1; if x < 0 { ux = ^ux }
ZigZag(x) == IF x < 0 THEN (-2 * x) - 1 ELSE 2 * x

RECURSIVE PutUvarint(_)
PutUvarint(ux) ==
    IF ux >= 128 THEN <<(ux % 128) + 128>> \o PutUvarint(ux \div 128)
                 ELSE <<ux>>

\* PutVarint without the zig-zag step (binary.PutUvarint)
PutVarint_Unsigned(size) ==
    LET enc == PutUvarint(size)
    IN  enc \o Zeros(MaxVarintLen64 - Len(enc))

\* buf_size := make([]byte, binary.MaxVarintLen64); binary.PutVarint(buf_size, size)
PutVarint(size) ==
    LET enc == PutUvarint(ZigZag(size))
    IN  enc \o Zeros(MaxVarintLen64 - Len(enc))

\* binary.Uvarint: 7 bits per byte, least significant group first, ends at
\* the first byte below 0x80; 0 when the buffer ends first.
RECURSIVE Uvarint(_, _, _, _)
Uvarint(buf, i, x, mult) ==
    IF i > Len(buf) THEN 0
    ELSE IF buf[i] < 128 THEN x + buf[i] * mult
    ELSE Uvarint(buf, i + 1, x + (buf[i] - 128) * mult, mult * 128)

\* binary.Varint: x := int64(ux >> 1); if ux&1 != 0 { x = ^x }
Varint(buf) ==
    LET ux == Uvarint(buf, 1, 0, 1)
    IN  IF ux % 2 = 1 THEN -(ux \div 2) - 1 ELSE ux \div 2

(***************************************************************************)
(* msgpack (vmihailenco/msgpack/v5): Marshal of an MqttMessage is a fixmap *)
(* of its three fields in declaration order, keyed by the field names;     *)
(* an int64 is 0xd3 and 8 big-endian bytes, a string a fixstr, a []byte a  *)
(* bin8.                                                                   *)
(***************************************************************************)
KeyMillis  == <<77, 105, 108, 108, 105, 115>>          \* "Millis"
KeyTopic   == <<84, 111, 112, 105, 99>>                \* "Topic"
KeyPayload == <<80, 97, 121, 108, 111, 97, 100>>       \* "Payload"

RECURSIVE BigEndian(_, _)
BigEndian(v, n) ==
    IF n = 0 THEN <<>> ELSE BigEndian(v \div 256, n - 1) \o <<v % 256>>

EncodeInt64(v)  == <<211>> \o BigEndian(v, 8)
EncodeString(s) == <<160 + Len(s)>> \o s
EncodeBytes(b)  == <<196, Len(b)>> \o b

Marshal(m) ==
    <<131>> \o EncodeString(KeyMillis)  \o EncodeInt64(m.Millis)
            \o EncodeString(KeyTopic)   \o EncodeString(m.Topic)
            \o EncodeString(KeyPayload) \o EncodeBytes(m.Payload)

(***************************************************************************)
(* msgpack.Unmarshal(payload_buf, &msg) on a buffer of `size` bytes whose  *)
(* first Len(bytes) bytes were filled by file.Read and whose remaining     *)
(* bytes are the zeros make() left there.  A decoding step returns         *)
(* [err, i, val]: i is the index of the next byte.  The decoder knows the  *)
(* msgpack codes that occur in the files of the model (nil, fixint, uint8, *)
(* int64, fixstr, str8, bin8, fixmap); any other code is an error.         *)
(***************************************************************************)
At(bytes, i) == IF i <= Len(bytes) THEN bytes[i] ELSE 0

DecErr == [err |-> TRUE, i |-> 0, val |-> 0]
DecOk(i, v) == [err |-> FALSE, i |-> i, val |-> v]

\* Decoder.bytesLen + readN: a string or byte slice (nil decodes as empty)
DecodeBytes(bytes, size, i) ==
    IF i > size THEN DecErr
    ELSE LET c == At(bytes, i) IN
         IF c = 192 THEN DecOk(i + 1, <<>>)
         ELSE IF c >= 160 /\ c <= 191 THEN
              LET n == c - 160 IN
              IF i + n > size THEN DecErr
              ELSE DecOk(i + 1 + n, [k \in 1..n |-> At(bytes, i + k)])
         ELSE IF c = 196 \/ c = 217 THEN
              IF i + 1 > size THEN DecErr
              ELSE LET n == At(bytes, i + 1) IN
                   IF i + 1 + n > size THEN DecErr
                   ELSE DecOk(i + 2 + n, [k \in 1..n |-> At(bytes, i + 1 + k)])
         ELSE DecErr

RECURSIVE FromBigEndian(_, _, _, _)
FromBigEndian(bytes, i, n, acc) ==
    IF n = 0 THEN acc
    ELSE FromBigEndian(bytes, i + 1, n - 1, acc * 256 + At(bytes, i))

\* Decoder.DecodeInt64
DecodeInt64(bytes, size, i) ==
    IF i > size THEN DecErr
    ELSE LET c == At(bytes, i) IN
         IF c = 192 THEN DecOk(i + 1, 0)
         ELSE IF c <= 127 THEN DecOk(i + 1, c)
         ELSE IF c >= 224 THEN DecOk(i + 1, c - 256)
         ELSE IF c = 204 THEN
              IF i + 1 > size THEN DecErr ELSE DecOk(i + 2, At(bytes, i + 1))
         ELSE IF c = 211 THEN
              IF i + 8 > size THEN DecErr
              ELSE DecOk(i + 9, FromBigEndian(bytes, i + 1, 8, 0))
         ELSE DecErr

\* Decoder.Skip: the value of a key that is no field of MqttMessage
SkipValue(bytes, size, i) ==
    IF i > size THEN DecErr
    ELSE LET c == At(bytes, i) IN
         IF c <= 127 \/ c >= 224 \/ c \in {192, 194, 195} THEN DecOk(i + 1, 0)
         ELSE IF c = 204 THEN
              IF i + 1 > size THEN DecErr ELSE DecOk(i + 2, 0)
         ELSE IF c = 211 THEN
              IF i + 8 > size THEN DecErr ELSE DecOk(i + 9, 0)
         ELSE LET r == DecodeBytes(bytes, size, i) IN
              IF r.err THEN DecErr ELSE DecOk(r.i, 0)

\* Decoder.decodeStruct: n key/value pairs into m
RECURSIVE DecodeStruct(_, _, _, _, _)
DecodeStruct(bytes, size, i, n, m) ==
    IF n = 0 THEN DecOk(i, m)
    ELSE Bind(DecodeBytes(bytes, size, i), LAMBDA key :
         IF key.err THEN DecErr
         ELSE IF key.val = KeyMillis THEN
              Bind(DecodeInt64(bytes, size, key.i), LAMBDA v :
              IF v.err THEN DecErr
              ELSE DecodeStruct(bytes, size, v.i, n - 1, [m EXCEPT !.Millis = v.val]))
         ELSE IF key.val = KeyTopic THEN
              Bind(DecodeBytes(bytes, size, key.i), LAMBDA v :
              IF v.err THEN DecErr
              ELSE DecodeStruct(bytes, size, v.i, n - 1, [m EXCEPT !.Topic = v.val]))
         ELSE IF key.val = KeyPayload THEN
              Bind(DecodeBytes(bytes, size, key.i), LAMBDA v :
              IF v.err THEN DecErr
              ELSE DecodeStruct(bytes, size, v.i, n - 1, [m EXCEPT !.Payload = v.val]))
         ELSE Bind(SkipValue(bytes, size, key.i), LAMBDA v :
              IF v.err THEN DecErr
              ELSE DecodeStruct(bytes, size, v.i, n - 1, m)))

\* msgpack.Unmarshal into a zero MqttMessage: [err, msg]
Unmarshal(bytes, size) ==
    IF size = 0 THEN [err |-> TRUE, msg |-> ZeroMessage]
    ELSE LET c == At(bytes, 1) IN
         IF c = 192 THEN [err |-> FALSE, msg |-> ZeroMessage]
         ELSE IF c >= 128 /\ c <= 143 THEN
              Bind(DecodeStruct(bytes, size, 2, c - 128, ZeroMessage), LAMBDA r :
              IF r.err THEN [err |-> TRUE, msg |-> ZeroMessage]
              ELSE [err |-> FALSE, msg |-> r.val])
         ELSE [err |-> TRUE, msg |-> ZeroMessage]

(***************************************************************************)
(* os.File.Read(buf) at offset `at` of a regular file: the bytes that are  *)
(* there, at most `n` of them; io.EOF when n > 0 and none is left, and     *)
(* (0, nil) for an empty buf.                                              *)
(***************************************************************************)
FileRead(f, at, n) ==
    LET got == Min(n, Len(f) - at)
    IN  [bytes |-> SubSeq(f, at + 1, at + got), eof |-> (n > 0 /\ got = 0)]

\* readEntry that returns (MqttMessage{}, -1) where the source ends the process
readEntry_DecodeErrorIsEof(f, at) ==
    Bind(FileRead(f, at, MaxVarintLen64), LAMBDA r1 :
    IF r1.eof
    THEN [outcome |-> "eof", msg |-> ZeroMessage, len |-> -1, pos |-> at]
    ELSE
    Bind(Varint(r1.bytes \o Zeros(MaxVarintLen64 - Len(r1.bytes))), LAMBDA payload_size :
    IF payload_size < 0
    THEN [outcome |-> "eof", msg |-> ZeroMessage, len |-> -1, pos |-> at + Len(r1.bytes)]
    ELSE
    Bind(FileRead(f, at + Len(r1.bytes), payload_size), LAMBDA r2 :
    IF r2.eof
    THEN [outcome |-> "eof", msg |-> ZeroMessage, len |-> -1, pos |-> at + Len(r1.bytes)]
    ELSE
    Bind(Unmarshal(r2.bytes, payload_size), LAMBDA u :
    IF u.err
    THEN [outcome |-> "eof", msg |-> ZeroMessage, len |-> -1,
          pos |-> at + Len(r1.bytes) + Len(r2.bytes)]
    ELSE [outcome |-> "ok", msg |-> u.msg, len |-> payload_size,
          pos |-> at + Len(r1.bytes) + Len(r2.bytes)]))))

(***************************************************************************)
(* readEntry(file): [outcome, msg, len, pos].  outcome "ok" is a return    *)
(* with a message, "eof" the return of (MqttMessage{}, -1), "fatal" the    *)
(* end of the process (log.Fatalln, or the panic of make with a negative   *)
(* length).                                                                *)
(***************************************************************************)
readEntry(f, at) ==
    Bind(FileRead(f, at, MaxVarintLen64), LAMBDA r1 :
    IF r1.eof
    THEN [outcome |-> "eof", msg |-> ZeroMessage, len |-> -1, pos |-> at]
    ELSE
    Bind(Varint(r1.bytes \o Zeros(MaxVarintLen64 - Len(r1.bytes))), LAMBDA payload_size :
    IF payload_size < 0
    THEN [outcome |-> "fatal", msg |-> ZeroMessage, len |-> payload_size,
          pos |-> at + Len(r1.bytes)]
    ELSE
    Bind(FileRead(f, at + Len(r1.bytes), payload_size), LAMBDA r2 :
    IF r2.eof
    THEN [outcome |-> "eof", msg |-> ZeroMessage, len |-> -1, pos |-> at + Len(r1.bytes)]
    ELSE
    Bind(Unmarshal(r2.bytes, payload_size), LAMBDA u :
    IF u.err
    THEN [outcome |-> "fatal", msg |-> ZeroMessage, len |-> payload_size,
          pos |-> at + Len(r1.bytes) + Len(r2.bytes)]
    ELSE [outcome |-> "ok", msg |-> u.msg, len |-> payload_size,
          pos |-> at + Len(r1.bytes) + Len(r2.bytes)]))))

(***************************************************************************)
(* Recording files.                                                        *)
(***************************************************************************)
\* one frame as message_handler writes it: file.Write(buf_size); file.Write(buf_payload)
Frame(m) == PutVarint(Len(Marshal(m))) \o Marshal(m)

RECURSIVE FileOf(_)
FileOf(ms) == IF ms = <<>> THEN <<>> ELSE Frame(Head(ms)) \o FileOf(Tail(ms))

\* message sequences a recorder with a non-decreasing clock can have received:
\* the i-th message has body BodyAt(i) and follows its predecessor by a gap
RECURSIVE Recordings(_)
Recordings(n) ==
    IF n = 0 THEN { <<>> }
    ELSE LET shorter == Recordings(n - 1) IN
         shorter \cup
         { Append(ms, MqttMessage(
                 IF ms = <<>> THEN BaseMillis ELSE ms[Len(ms)].Millis + g,
                 BodyAt(n).Topic, BodyAt(n).Payload)) :
             ms \in { x \in shorter : Len(x) = n - 1 }, g \in Gaps }

(***************************************************************************)
(* Damaged recordings: the last frame cut at a byte position inside it, or *)
(* frame k carrying a zero or negative length prefix, or a message that    *)
(* does not decode.                                                        *)
(***************************************************************************)
NoDamage == [kind |-> "none", at |-> 0]

LastFrameStart(ms) == Len(FileOf(SubSeq(ms, 1, Len(ms) - 1)))

Damages(ms) ==
    {NoDamage}
    \cup { [kind |-> "truncated", at |-> c] :
             c \in IF ms = <<>> THEN {}
                   ELSE (LastFrameStart(ms) + 1) .. (Len(FileOf(ms)) - 1) }
    \cup { [kind |-> k, at |-> i] :
             k \in {"zero_len", "neg_len", "bad_msg"}, i \in 1..Len(ms) }

BadFrame(m, kind) ==
    CASE kind = "zero_len" -> PutVarint(0) \o Marshal(m)
      [] kind = "neg_len"  -> PutVarint(-1) \o Marshal(m)
      [] kind = "bad_msg"  -> PutVarint(Len(Marshal(m))) \o Zeros(Len(Marshal(m)))

DamagedFile(ms, d) ==
    CASE d.kind = "none"      -> FileOf(ms)
      [] d.kind = "truncated" -> SubSeq(FileOf(ms), 1, d.at)
      [] OTHER -> FileOf(SubSeq(ms, 1, d.at - 1)) \o BadFrame(ms[d.at], d.kind)
                  \o FileOf(SubSeq(ms, d.at + 1, Len(ms)))

(***************************************************************************)
(* Values of the variables a specification does not use.                   *)
(***************************************************************************)
ZeroPlayback ==
    [endTimeAvailable |-> FALSE, lastStartTimeSec |-> 0, recordingStartTime |-> 0,
     firstMsgMillis |-> 0, firstMsgWallclock |-> 0]

IdleHandler == [pc |-> "idle", t |-> 0, topic |-> <<>>, payload |-> <<>>]

\* make(map[string]MsgStats)
NoStats == [t \in {} |-> 0]

\* an environment in which no operation fails
NoFaults == {}

\* the scheduler is playing and was never halted
NoCtl == [state |-> "Playing", accumulatedHaltOffset |-> 0, haltStart |-> 0,
          haltedMillis |-> 0, halts |-> 0, seeks |-> 0, sigints |-> 0]

\* main is in its first time.Sleep, no signal has arrived
NoReports ==
    /\ mainPc = "sleep"
    /\ sleepUntil = BaseMillis + msgStatsTime * 1000
    /\ sigPc = "wait"
    /\ reported = 0

\* the recorder with the WaitGroup does not run
NoWaitGroup ==
    /\ wg = 0
    /\ recordPc = "none"
    /\ sigs = 0

NoRecorder ==
    /\ recState = "none"
    /\ hs = [h \in 1..MaxHandlers |-> IdleHandler]
    /\ msgCnt = 0
    /\ handled = <<>>
    /\ arrived = 0
    /\ fd = "none"
    /\ wrErrs = 0
    /\ msgStats = NoStats
    /\ NoReports
    /\ NoWaitGroup
    /\ statsOutput = FALSE

\* main of the inline version: its locals at their zero values
InlineStart ==
    [pc |-> "Init", pos |-> 0, msg |-> ZeroMessage, len |-> 0,
     endTimeAvailable |-> FALSE, recordingStartTime |-> 0,
     firstMsgMilis |-> 0, firstMsgWallclock |-> 0, targetWallclock |-> 0,
     published |-> <<>>]

NoInline == [InlineStart EXCEPT !.pc = "none"]

NoPlayer ==
    /\ inl = NoInline
    /\ pc = "none"
    /\ pos = 0
    /\ msg = ZeroMessage
    /\ len = 0
    /\ p = ZeroPlayback
    /\ startTimeSec = 0
    /\ endTimeSec = 0
    /\ targetWallclock = 0
    /\ messagesLeft = TRUE
    /\ published = <<>>
    /\ entries = <<>>

(***************************************************************************)
(* SpecRead: successive readEntry calls on one open file, as the replay    *)
(* loops make them, until the end-of-stream signal                         *)
(* (and again after it), or until the process ends.                        *)
(***************************************************************************)
InitRead ==
    /\ \E ms \in Recordings(MaxReadFrames) : \E d \in Damages(ms) :
          /\ frames = ms
          /\ damage = d
          /\ file = DamagedFile(ms, d)
    /\ now = 0
    /\ inl = NoInline
    /\ pc = "reading"
    /\ pos = 0
    /\ msg = ZeroMessage
    /\ len = 0
    /\ p = ZeroPlayback
    /\ startTimeSec = 0
    /\ endTimeSec = 0
    /\ targetWallclock = 0
    /\ messagesLeft = TRUE
    /\ published = <<>>
    /\ entries = <<>>
    /\ NoRecorder
    /\ ctl = NoCtl
    /\ faults = NoFaults
    /\ log = <<>>

\* msg, len := readEntry(file)
ReadEntryCall ==
    /\ pc \in {"reading", "eos"}
    /\ Len(entries) < MaxReads
    /\ LET r == readEntry(file, pos) IN
       /\ pos' = r.pos
       /\ msg' = r.msg
       /\ len' = r.len
       /\ pc' = CASE r.outcome = "ok"    -> "reading"
                  [] r.outcome = "eof"   -> "eos"
                  [] r.outcome = "fatal" -> "fatal"
       /\ entries' = IF r.outcome = "fatal" THEN entries
                     ELSE Append(entries, [msg |-> r.msg, len |-> r.len])
    /\ UNCHANGED <<fileVars, p, startTimeSec, endTimeSec, targetWallclock, messagesLeft,
                   published>>
    /\ UNCHANGED recVars
    /\ UNCHANGED ctlVars
    /\ UNCHANGED envVars
    /\ UNCHANGED inlVars

NextRead == ReadEntryCall

SpecRead == InitRead /\ [][NextRead]_vars

(***************************************************************************)
(* Spec: mqtt-replay.  main opens the file, connects, runs Playback.Init   *)
(* and then PlayNextMessage until it returns false.                        *)
(***************************************************************************)
\* the replay from the point where main has opened the file and connected,
\* in an environment without faults
Init ==
    /\ \E ms \in Recordings(MaxFrames) :
          /\ frames = ms
          /\ file = FileOf(ms)
    /\ damage = NoDamage
    /\ now = 0
    /\ pc = "Init"
    /\ pos = 0
    /\ msg = ZeroMessage
    /\ len = 0
    /\ p = ZeroPlayback
    /\ startTimeSec \in 0..MaxStartSec
    /\ endTimeSec \in 0..MaxEndSec
    /\ targetWallclock = 0
    /\ messagesLeft = TRUE
    /\ published = <<>>
    /\ entries = <<>>
    /\ inl = InlineStart
    /\ NoRecorder
    /\ ctl = NoCtl
    /\ faults = NoFaults
    /\ log = <<>>

\* token.Error() of a client.Publish: nil, or, when publishing fails in this
\* environment, nil or an error
PublishResults == IF "publish" \in faults THEN {TRUE, FALSE} ELSE {TRUE}

\* publish(client, msg): client.Publish(msg.Topic, 0, false, msg.Payload);
\* token.Wait(), the token's error not looked at
publish(m, paced, ok) ==
    Append(published, [msg |-> m, at |-> now, paced |-> paced, ok |-> ok])

\* the log after a readEntry call: log.Fatalln where the message does not
\* unpack (the runtime's panic message where make was given a negative length)
LogOf(r) ==
    IF r.outcome = "fatal"
    THEN Append(log, "Fatal error unpacking packet in recording file")
    ELSE log

\* Playback.Init that leaves recordingStartTime at its zero value
PlaybackInit_NoRecordingStart ==
    /\ pc = "Init"
    /\ LET r == readEntry(file, pos) IN
       /\ pos' = r.pos
       /\ msg' = r.msg
       /\ len' = r.len
       /\ p' = [p EXCEPT !.lastStartTimeSec = startTimeSec,
                         !.endTimeAvailable = (endTimeSec > 0)]
       /\ pc' = IF r.outcome = "fatal" THEN "Fatal" ELSE "FastForward"
       /\ log' = LogOf(r)
    /\ UNCHANGED <<fileVars, startTimeSec, endTimeSec, targetWallclock, messagesLeft,
                   published, entries, faults>>
    /\ UNCHANGED recVars
    /\ UNCHANGED ctlVars

\* Playback.Init up to its loop: the flags, the first entry, recordingStartTime
PlaybackInit ==
    /\ pc = "Init"
    /\ LET r == readEntry(file, pos) IN
       /\ pos' = r.pos
       /\ msg' = r.msg
       /\ len' = r.len
       /\ p' = [p EXCEPT !.lastStartTimeSec = startTimeSec,
                         !.endTimeAvailable = (endTimeSec > 0),
                         !.recordingStartTime = r.msg.Millis]
       /\ pc' = IF r.outcome = "fatal" THEN "Fatal" ELSE "FastForward"
       /\ log' = LogOf(r)
    /\ UNCHANGED <<fileVars, startTimeSec, endTimeSec, targetWallclock, messagesLeft,
                   published, entries, faults>>
    /\ UNCHANGED recVars
    /\ UNCHANGED ctlVars

\* FastForward with > for >= in the start-time test
FastForward_StrictStart ==
    /\ pc = "FastForward"
    /\ LET msgMillisRelative == msg.Millis - p.recordingStartTime IN
       IF msgMillisRelative > startTimeSec * 1000
       THEN /\ \E ok \in PublishResults : published' = publish(msg, FALSE, ok)
            /\ pc' = "Anchor"
            /\ UNCHANGED <<pos, msg, len, log>>
       ELSE LET r == readEntry(file, pos) IN
            /\ pos' = r.pos
            /\ msg' = r.msg
            /\ len' = r.len
            /\ pc' = IF r.outcome = "fatal" THEN "Fatal" ELSE "FastForward"
            /\ log' = LogOf(r)
            /\ UNCHANGED published
    /\ UNCHANGED <<fileVars, p, startTimeSec, endTimeSec, targetWallclock, messagesLeft,
                   entries, faults>>
    /\ UNCHANGED recVars
    /\ UNCHANGED ctlVars

\* one iteration of Init's fast-forward loop: publish the message at or after
\* the start time, or skip to the next entry
FastForward ==
    /\ pc = "FastForward"
    /\ LET msgMillisRelative == msg.Millis - p.recordingStartTime IN
       IF msgMillisRelative >= startTimeSec * 1000
       THEN /\ \E ok \in PublishResults : published' = publish(msg, FALSE, ok)
            /\ pc' = "Anchor"
            /\ UNCHANGED <<pos, msg, len, log>>
       ELSE LET r == readEntry(file, pos) IN
            /\ pos' = r.pos
            /\ msg' = r.msg
            /\ len' = r.len
            /\ pc' = IF r.outcome = "fatal" THEN "Fatal" ELSE "FastForward"
            /\ log' = LogOf(r)
            /\ UNCHANGED published
    /\ UNCHANGED <<fileVars, p, startTimeSec, endTimeSec, targetWallclock, messagesLeft,
                   entries, faults>>
    /\ UNCHANGED recVars
    /\ UNCHANGED ctlVars

\* p.firstMsgMillis = msg.Millis; p.firstMsgWallclock = nowMillis(); break;
\* Init returns and main sets messagesLeft := true
SetAnchor ==
    /\ pc = "Anchor"
    /\ p' = [p EXCEPT !.firstMsgMillis = msg.Millis, !.firstMsgWallclock = now]
    /\ messagesLeft' = TRUE
    /\ pc' = "Loop"
    /\ UNCHANGED <<fileVars, pos, msg, len, startTimeSec, endTimeSec, targetWallclock,
                   published, entries>>
    /\ UNCHANGED recVars
    /\ UNCHANGED ctlVars
    /\ UNCHANGED envVars

\* main's loop without its condition: for { playControl.PlayNextMessage() }
MainLoop_Unconditional ==
    /\ pc = "Loop"
    /\ pc' = "PlayNext"
    /\ UNCHANGED <<fileVars, pos, msg, len, p, startTimeSec, endTimeSec, targetWallclock,
                   messagesLeft, published, entries>>
    /\ UNCHANGED recVars
    /\ UNCHANGED ctlVars
    /\ UNCHANGED envVars

\* main's loop: for messagesLeft { messagesLeft = playControl.PlayNextMessage() },
\* then log.Println("Replay finished") and the return from main
MainLoop ==
    /\ pc = "Loop"
    /\ pc' = IF messagesLeft THEN "PlayNext" ELSE "Finished"
    /\ UNCHANGED <<fileVars, pos, msg, len, p, startTimeSec, endTimeSec, targetWallclock,
                   messagesLeft, published, entries>>
    /\ UNCHANGED recVars
    /\ UNCHANGED ctlVars
    /\ UNCHANGED envVars

\* PlayNextMessage with >= for > in the end-time test
PlayNextMessage_EndInclusive ==
    /\ pc = "PlayNext"
    /\ LET r == readEntry(file, pos)
           msgMillisRelative == r.msg.Millis - p.recordingStartTime
       IN
       /\ pos' = r.pos
       /\ msg' = r.msg
       /\ len' = r.len
       /\ log' = LogOf(r)
       /\ IF r.outcome = "fatal"
          THEN pc' = "Fatal" /\ UNCHANGED <<targetWallclock, messagesLeft>>
          ELSE IF r.len < 0
          THEN pc' = "Loop" /\ messagesLeft' = FALSE /\ UNCHANGED targetWallclock
          ELSE IF p.endTimeAvailable /\ msgMillisRelative >= endTimeSec * 1000
          THEN pc' = "Loop" /\ messagesLeft' = FALSE /\ UNCHANGED targetWallclock
          ELSE /\ targetWallclock' = p.firstMsgWallclock + (r.msg.Millis - p.firstMsgMillis)
               /\ pc' = "Wait"
               /\ UNCHANGED messagesLeft
    /\ UNCHANGED <<fileVars, p, startTimeSec, endTimeSec, published, entries, faults>>
    /\ UNCHANGED recVars
    /\ UNCHANGED ctlVars

\* PlayNextMessage that takes an end time of 0 for an end time
PlayNextMessage_EndUnset ==
    /\ pc = "PlayNext"
    /\ LET r == readEntry(file, pos)
           msgMillisRelative == r.msg.Millis - p.recordingStartTime
       IN
       /\ pos' = r.pos
       /\ msg' = r.msg
       /\ len' = r.len
       /\ log' = LogOf(r)
       /\ IF r.outcome = "fatal"
          THEN pc' = "Fatal" /\ UNCHANGED <<targetWallclock, messagesLeft>>
          ELSE IF r.len < 0
          THEN pc' = "Loop" /\ messagesLeft' = FALSE /\ UNCHANGED targetWallclock
          ELSE IF msgMillisRelative > endTimeSec * 1000
          THEN pc' = "Loop" /\ messagesLeft' = FALSE /\ UNCHANGED targetWallclock
          ELSE /\ targetWallclock' = p.firstMsgWallclock + (r.msg.Millis - p.firstMsgMillis)
               /\ pc' = "Wait"
               /\ UNCHANGED messagesLeft
    /\ UNCHANGED <<fileVars, p, startTimeSec, endTimeSec, published, entries, faults>>
    /\ UNCHANGED recVars
    /\ UNCHANGED ctlVars

\* PlayNextMessage up to its wait loop: it returns false at end of stream or
\* past the end time, else it sets the target time of the message
PlayNextMessage ==
    /\ pc = "PlayNext"
    /\ LET r == readEntry(file, pos)
           msgMillisRelative == r.msg.Millis - p.recordingStartTime
       IN
       /\ pos' = r.pos
       /\ msg' = r.msg
       /\ len' = r.len
       /\ log' = LogOf(r)
       /\ IF r.outcome = "fatal"
          THEN pc' = "Fatal" /\ UNCHANGED <<targetWallclock, messagesLeft>>
          ELSE IF r.len < 0
          THEN pc' = "Loop" /\ messagesLeft' = FALSE /\ UNCHANGED targetWallclock
          ELSE IF p.endTimeAvailable /\ msgMillisRelative > endTimeSec * 1000
          THEN pc' = "Loop" /\ messagesLeft' = FALSE /\ UNCHANGED targetWallclock
          ELSE /\ targetWallclock' = p.firstMsgWallclock + (r.msg.Millis - p.firstMsgMillis)
               /\ pc' = "Wait"
               /\ UNCHANGED messagesLeft
    /\ UNCHANGED <<fileVars, p, startTimeSec, endTimeSec, published, entries, faults>>
    /\ UNCHANGED recVars
    /\ UNCHANGED ctlVars

\* WaitLoop with the comparison of the clock and the target reversed
WaitLoop_Early ==
    /\ pc = "Wait"
    /\ IF now <= targetWallclock
       THEN /\ \E ok \in PublishResults : published' = publish(msg, TRUE, ok)
            /\ messagesLeft' = TRUE
            /\ pc' = "Loop"
            /\ UNCHANGED now
       ELSE /\ now' = now + TickStep
            /\ UNCHANGED <<published, pc, messagesLeft>>
    /\ UNCHANGED <<file, frames, damage, pos, msg, len, p, startTimeSec, endTimeSec,
                   targetWallclock, entries>>
    /\ UNCHANGED recVars
    /\ UNCHANGED ctlVars
    /\ UNCHANGED envVars

\* one iteration of the wait loop: publish once nowMillis() >= targetWallclock
\* and return true, else time.Sleep
WaitLoop ==
    /\ pc = "Wait"
    /\ IF now >= targetWallclock
       THEN /\ \E ok \in PublishResults : published' = publish(msg, TRUE, ok)
            /\ messagesLeft' = TRUE
            /\ pc' = "Loop"
            /\ UNCHANGED now
       ELSE /\ now' = now + TickStep
            /\ UNCHANGED <<published, pc, messagesLeft>>
    /\ UNCHANGED <<file, frames, damage, pos, msg, len, p, startTimeSec, endTimeSec,
                   targetWallclock, entries>>
    /\ UNCHANGED recVars
    /\ UNCHANGED ctlVars
    /\ UNCHANGED envVars

\* the wall clock advances while the replay runs
Tick ==
    /\ pc \in {"Init", "FastForward", "Anchor", "Loop", "PlayNext", "Wait"}
    /\ now < MaxTicks * TickStep
    /\ now' = now + TickStep
    /\ UNCHANGED <<file, frames, damage>>
    /\ UNCHANGED playVars
    /\ UNCHANGED recVars
    /\ UNCHANGED ctlVars
    /\ UNCHANGED envVars

\* the replay of the version with the Playback struct (the inline version
\* does not run)
Next ==
    \/ PlaybackInit /\ UNCHANGED inlVars
    \/ FastForward /\ UNCHANGED inlVars
    \/ SetAnchor /\ UNCHANGED inlVars
    \/ MainLoop /\ UNCHANGED inlVars
    \/ PlayNextMessage /\ UNCHANGED inlVars
    \/ WaitLoop /\ UNCHANGED inlVars
    \/ Tick /\ UNCHANGED inlVars

Spec == Init /\ [][Next]_vars

\* the replay thread keeps running (the clock alone does not count)
Replay ==
    /\ PlaybackInit \/ FastForward \/ SetAnchor \/ MainLoop \/ PlayNextMessage \/ WaitLoop
    /\ UNCHANGED inlVars

FairSpec == Spec /\ WF_vars(Replay)

(***************************************************************************)
(* SpecMain: mqtt-replay from the start of main, in an environment in      *)
(* which one kind of operation may fail: opening the file, connecting, or  *)
(* publishing.                                                             *)
(***************************************************************************)
PlayFaults == { NoFaults, {"open"}, {"connect"}, {"publish"} }

InitMain ==
    /\ \E ms \in Recordings(MaxFrames) :
          /\ frames = ms
          /\ file = FileOf(ms)
    /\ damage = NoDamage
    /\ now = 0
    /\ pc = "Open"
    /\ pos = 0
    /\ msg = ZeroMessage
    /\ len = 0
    /\ p = ZeroPlayback
    /\ startTimeSec \in 0..MaxStartSec
    /\ endTimeSec \in 0..MaxEndSec
    /\ targetWallclock = 0
    /\ messagesLeft = TRUE
    /\ published = <<>>
    /\ entries = <<>>
    /\ inl = InlineStart
    /\ NoRecorder
    /\ ctl = NoCtl
    /\ faults \in PlayFaults
    /\ log = <<>>

\* file, err := os.Open(filename); log.Fatalln on an error; defer file.Close()
OpenFile ==
    /\ pc = "Open"
    /\ IF "open" \in faults
       THEN /\ log' = Append(log, "Error opening file for reading:")
            /\ pc' = "Fatal"
       ELSE /\ pc' = "Connect"
            /\ UNCHANGED log
    /\ UNCHANGED <<fileVars, pos, msg, len, p, startTimeSec, endTimeSec, targetWallclock,
                   messagesLeft, published, entries, faults>>
    /\ UNCHANGED recVars
    /\ UNCHANGED ctlVars
    /\ UNCHANGED inlVars

\* client.Connect() whose error is not looked at
Connect_ErrorIgnored ==
    /\ pc = "Connect"
    /\ pc' = "Init"
    /\ UNCHANGED <<fileVars, pos, msg, len, p, startTimeSec, endTimeSec, targetWallclock,
                   messagesLeft, published, entries>>
    /\ UNCHANGED recVars
    /\ UNCHANGED ctlVars
    /\ UNCHANGED envVars
    /\ UNCHANGED inlVars

\* client.Connect(); token.Wait(); log.Panicln on an error
Connect ==
    /\ pc = "Connect"
    /\ IF "connect" \in faults
       THEN /\ log' = Append(log, "Error connecting to MQTT broker:")
            /\ pc' = "Fatal"
       ELSE /\ pc' = "Init"
            /\ UNCHANGED log
    /\ UNCHANGED <<fileVars, pos, msg, len, p, startTimeSec, endTimeSec, targetWallclock,
                   messagesLeft, published, entries, faults>>
    /\ UNCHANGED recVars
    /\ UNCHANGED ctlVars
    /\ UNCHANGED inlVars

NextMain ==
    \/ OpenFile
    \/ Connect
    \/ Next

SpecMain == InitMain /\ [][NextMain]_vars

(***************************************************************************)
(* SpecInline: the Playback-struct replay and the replay with the loop     *)
(* inline in main, run side by side on the same file, flags and clock:     *)
(* each step is a step of the one and the corresponding step of the other, *)
(* both reading the clock at the same time.                                *)
(***************************************************************************)
\* publish(client, msg) of the inline version
InlinePublish(paced) ==
    Append(inl.published, [msg |-> inl.msg, at |-> now, paced |-> paced, ok |-> TRUE])

\* endTimeAvailable := endTimeSec > 0; msg, len := readEntry(file);
\* recordingStartTime := msg.Millis
InlineInit ==
    /\ inl.pc = "Init"
    /\ LET r == readEntry(file, inl.pos) IN
       inl' = [inl EXCEPT !.endTimeAvailable = (endTimeSec > 0),
                          !.pos = r.pos, !.msg = r.msg, !.len = r.len,
                          !.recordingStartTime = r.msg.Millis,
                          !.pc = IF r.outcome = "fatal" THEN "Fatal" ELSE "FastForward"]

\* one iteration of the fast-forward loop
InlineFastForward ==
    /\ inl.pc = "FastForward"
    /\ IF inl.msg.Millis - inl.recordingStartTime >= startTimeSec * 1000
       THEN inl' = [inl EXCEPT !.published = InlinePublish(FALSE), !.pc = "Anchor"]
       ELSE LET r == readEntry(file, inl.pos) IN
            inl' = [inl EXCEPT !.pos = r.pos, !.msg = r.msg, !.len = r.len,
                               !.pc = IF r.outcome = "fatal" THEN "Fatal"
                                      ELSE "FastForward"]

\* firstMsgMilis = msg.Millis; firstMsgWallclock = nowMillis(); break
InlineSetAnchor ==
    /\ inl.pc = "Anchor"
    /\ inl' = [inl EXCEPT !.firstMsgMilis = inl.msg.Millis,
                          !.firstMsgWallclock = now,
                          !.pc = "Loop"]

\* the head of the second loop (for { ... }), and, after a break out of it,
\* log.Println("Replay finished") and the return from main
InlineLoop ==
    /\ inl.pc \in {"Loop", "Break"}
    /\ inl' = [inl EXCEPT !.pc = IF inl.pc = "Loop" THEN "PlayNext" ELSE "Finished"]

\* the loop body without its end-time test
InlinePlayNext_NoEndTime ==
    /\ inl.pc = "PlayNext"
    /\ LET r == readEntry(file, inl.pos) IN
       inl' = [inl EXCEPT
                 !.pos = r.pos, !.msg = r.msg, !.len = r.len,
                 !.targetWallclock =
                     IF r.outcome = "fatal" \/ r.len < 0
                     THEN inl.targetWallclock
                     ELSE inl.firstMsgWallclock + (r.msg.Millis - inl.firstMsgMilis),
                 !.pc = IF r.outcome = "fatal" THEN "Fatal"
                        ELSE IF r.len < 0 THEN "Break"
                        ELSE "Wait"]

\* the loop body up to its wait loop: break at the end of the stream or past
\* the end time, else the target time of the message
InlinePlayNext ==
    /\ inl.pc = "PlayNext"
    /\ LET r == readEntry(file, inl.pos)
           stop == \/ r.len < 0
                   \/ /\ inl.endTimeAvailable
                      /\ r.msg.Millis - inl.recordingStartTime > endTimeSec * 1000
       IN
       inl' = [inl EXCEPT
                 !.pos = r.pos, !.msg = r.msg, !.len = r.len,
                 !.targetWallclock =
                     IF r.outcome = "fatal" \/ stop
                     THEN inl.targetWallclock
                     ELSE inl.firstMsgWallclock + (r.msg.Millis - inl.firstMsgMilis),
                 !.pc = IF r.outcome = "fatal" THEN "Fatal"
                        ELSE IF stop THEN "Break"
                        ELSE "Wait"]

\* one iteration of the wait loop: publish once nowMillis() >= targetWallclock,
\* else time.Sleep (during which the clock advances)
InlineWaitLoop ==
    /\ inl.pc = "Wait"
    /\ IF now >= inl.targetWallclock
       THEN inl' = [inl EXCEPT !.published = InlinePublish(TRUE), !.pc = "Loop"]
       ELSE UNCHANGED inl

NextInline ==
    \/ PlaybackInit /\ InlineInit
    \/ FastForward /\ InlineFastForward
    \/ SetAnchor /\ InlineSetAnchor
    \/ MainLoop /\ InlineLoop
    \/ PlayNextMessage /\ InlinePlayNext
    \/ WaitLoop /\ InlineWaitLoop
    \/ Tick /\ UNCHANGED inlVars

SpecInline == Init /\ [][NextInline]_vars

(***************************************************************************)
(* SpecCtl: the replay with playback control.  The control part of the     *)
(* scheduler is not in the source of mqtt-replay; it is modelled here from *)
(* the design of the Pacing Scheduler: an interrupt halts the playback, a  *)
(* Resume event continues it with the halted time added to the halt        *)
(* offset, a seek (skip forward, skip backward, restart) rewinds the file  *)
(* and runs Playback.Init with the new start time, a second interrupt or a *)
(* Quit event ends the process.  Reading, fast-forwarding, anchoring and   *)
(* the end-time test are those of the source.                              *)
(***************************************************************************)
\* the state of the Pacing Scheduler
Scheduler ==
    CASE ctl.state = "Aborted" -> "Aborted"
      [] ctl.state = "Halted"  -> "Halted"
      [] pc \in {"Init", "FastForward", "Anchor"} -> "Seeking"
      [] pc \in {"Loop", "PlayNext", "Wait"} -> "Playing"
      [] OTHER -> "Finished"

\* the scheduler runs the replay (it is neither halted nor aborted)
Running == ctl.state = "Playing"

\* an interrupt signal: Playing -> Halted (the anchor is frozen, the time of
\* the halt is kept); Halted -> Aborted (the process exits)
CtlInterrupt ==
    /\ Scheduler \in {"Playing", "Halted"}
    /\ IF Scheduler = "Playing"
       THEN /\ ctl.halts < MaxHalts
            /\ ctl' = [ctl EXCEPT !.state = "Halted", !.haltStart = now,
                                  !.halts = ctl.halts + 1,
                                  !.sigints = ctl.sigints + 1]
       ELSE /\ ctl' = [ctl EXCEPT !.state = "Aborted",
                                  !.sigints = ctl.sigints + 1]
    /\ UNCHANGED <<fileVars, playVars, recVars, envVars>>
    /\ UNCHANGED inlVars

\* the Quit event: Aborted, the process exits
CtlQuit ==
    /\ Scheduler \in {"Playing", "Halted"}
    /\ ctl' = [ctl EXCEPT !.state = "Aborted"]
    /\ UNCHANGED <<fileVars, playVars, recVars, envVars>>
    /\ UNCHANGED inlVars

\* Resume that does not add the halted time to the halt offset
CtlResume_NoOffset ==
    /\ Scheduler = "Halted"
    /\ ctl' = [ctl EXCEPT !.state = "Playing"]
    /\ UNCHANGED <<fileVars, playVars, recVars, envVars>>
    /\ UNCHANGED inlVars

\* the Resume event: Halted -> Playing, the halted wall-clock duration is
\* added to accumulatedHaltOffset
CtlResume ==
    /\ Scheduler = "Halted"
    /\ ctl' = [ctl EXCEPT !.state = "Playing",
                          !.accumulatedHaltOffset =
                              ctl.accumulatedHaltOffset + (now - ctl.haltStart)]
    /\ UNCHANGED <<fileVars, playVars, recVars, envVars>>
    /\ UNCHANGED inlVars

\* a seek event of a halted scheduler (skip forward, skip backward, restart):
\* SeekToRelativeTime(T seconds): the cursor is rewound to the start of the
\* file and Playback.Init(T, endTimeSec) searches the frame and re-anchors;
\* the new anchor starts with no halt offset
CtlSeek(T) ==
    /\ Scheduler = "Halted"
    /\ ctl.seeks < MaxSeeks
    /\ pos' = 0
    /\ startTimeSec' = T
    /\ pc' = "Init"
    /\ ctl' = [ctl EXCEPT !.state = "Playing", !.accumulatedHaltOffset = 0,
                          !.haltedMillis = 0, !.seeks = ctl.seeks + 1]
    /\ UNCHANGED <<fileVars, msg, len, p, endTimeSec, targetWallclock, messagesLeft,
                   published, entries>>
    /\ UNCHANGED <<recVars, envVars>>
    /\ UNCHANGED inlVars

\* the wait loop that does not look at the halt state
CtlWaitLoop_IgnoresHalt ==
    /\ pc = "Wait"
    /\ ctl.state # "Aborted"
    /\ IF now >= targetWallclock + ctl.accumulatedHaltOffset
       THEN /\ \E ok \in PublishResults : published' = publish(msg, TRUE, ok)
            /\ messagesLeft' = TRUE
            /\ pc' = "Loop"
            /\ UNCHANGED now
       ELSE /\ now' = now + TickStep
            /\ UNCHANGED <<published, pc, messagesLeft>>
    /\ UNCHANGED <<file, frames, damage, pos, msg, len, p, startTimeSec, endTimeSec,
                   targetWallclock, entries>>
    /\ UNCHANGED <<inlVars, recVars, ctlVars, envVars>>

\* one iteration of the wait loop of a scheduler with halt: it looks at the
\* halt state, and the target publish time is
\* wallClockAnchor + (messageTimestamp - firstMessageTimestamp) + accumulatedHaltOffset
CtlWaitLoop ==
    /\ pc = "Wait"
    /\ Running
    /\ IF now >= targetWallclock + ctl.accumulatedHaltOffset
       THEN /\ \E ok \in PublishResults : published' = publish(msg, TRUE, ok)
            /\ messagesLeft' = TRUE
            /\ pc' = "Loop"
            /\ UNCHANGED now
       ELSE /\ now' = now + TickStep
            /\ UNCHANGED <<published, pc, messagesLeft>>
    /\ UNCHANGED <<file, frames, damage, pos, msg, len, p, startTimeSec, endTimeSec,
                   targetWallclock, entries>>
    /\ UNCHANGED <<inlVars, recVars, ctlVars, envVars>>

\* the wall clock advances while the scheduler is halted
CtlHaltedTick ==
    /\ Scheduler = "Halted"
    /\ ctl.haltedMillis < MaxHaltTicks * TickStep
    /\ now' = now + TickStep
    /\ ctl' = [ctl EXCEPT !.haltedMillis = ctl.haltedMillis + TickStep]
    /\ UNCHANGED <<file, frames, damage>>
    /\ UNCHANGED <<playVars, recVars, envVars>>
    /\ UNCHANGED inlVars

\* a replay of a recording of up to MaxCtlFrames frames, started without
\* start and end offset
InitCtl == Init /\ Len(frames) <= MaxCtlFrames /\ startTimeSec = 0 /\ endTimeSec = 0

NextCtl ==
    \/ Running /\ PlaybackInit /\ UNCHANGED inlVars
    \/ Running /\ FastForward /\ UNCHANGED inlVars
    \/ Running /\ SetAnchor /\ UNCHANGED inlVars
    \/ Running /\ MainLoop /\ UNCHANGED inlVars
    \/ Running /\ PlayNextMessage /\ UNCHANGED inlVars
    \/ CtlWaitLoop
    \/ CtlInterrupt
    \/ CtlQuit
    \/ CtlResume
    \/ \E T \in 0..MaxStartSec : CtlSeek(T)
    \/ CtlHaltedTick

SpecCtl == InitCtl /\ [][NextCtl]_vars

(***************************************************************************)
(* Properties of the replay.                                               *)
(***************************************************************************)
\* the messages published so far, in order
Pubs == [i \in 1..Len(published) |-> published[i].msg]

\* relative timestamp of frame i of the recording
Rel(i) == frames[i].Millis - frames[1].Millis

\* index of the first frame at or after the start offset (0: there is none)
StartIndex ==
    LET at == { i \in 1..Len(frames) : Rel(i) >= startTimeSec * 1000 }
    IN  IF at = {} THEN 0 ELSE CHOOSE i \in at : \A j \in at : i <= j

\* index of the last frame played: the one before the first frame after
\* StartIndex that lies past the end offset
StopIndex ==
    LET past == { i \in (StartIndex + 1)..Len(frames) :
                    endTimeSec > 0 /\ Rel(i) > endTimeSec * 1000 }
    IN  IF past = {} THEN Len(frames)
        ELSE (CHOOSE i \in past : \A j \in past : i <= j) - 1

IsPrefix(s, t) == Len(s) <= Len(t) /\ s = SubSeq(t, 1, Len(s))

\* C1: with no start and no end offset, a recording of n >= 1 frames is
\* published frame by frame, each once and in file order, and the replay
\* then finishes having published all of them
C1_Case == startTimeSec = 0 /\ endTimeSec = 0 /\ frames # <<>>
C1_ReplayPublishesAllInOrder ==
    C1_Case => /\ [](IsPrefix(Pubs, frames) /\ pc # "Fatal")
               /\ <>(pc = "Finished" /\ Pubs = frames)
C1_Witness ==
    /\ C1_Case /\ pc = "Finished" /\ Len(frames) = 3 /\ Len(published) = 3
    /\ published[2].at = published[1].at + 500
    /\ published[3].at = published[2].at + 1000

\* C3: every message published after the anchor message was published at a
\* wall-clock time at or after firstMsgWallclock + (Millis - firstMsgMillis)
C3_NeverPublishedBeforeTarget ==
    \A i \in 2..Len(published) :
        published[i].at >= p.firstMsgWallclock
                           + (published[i].msg.Millis - p.firstMsgMillis)
C3_Witness ==
    /\ Len(published) >= 2
    /\ p.firstMsgWallclock > published[1].at
    /\ published[2].msg.Millis > published[1].msg.Millis
    /\ published[2].at = p.firstMsgWallclock
                         + (published[2].msg.Millis - p.firstMsgMillis)

\* C4: with start offset S no frame before S*1000 is published, the first
\* message published is the first frame at or after S*1000, it is published
\* by Init without pacing, and it is the anchor
C4_StartOffsetSeek ==
    (frames # <<>>) =>
        /\ \A i \in 1..Len(published) :
               published[i].msg.Millis - frames[1].Millis >= startTimeSec * 1000
        /\ (StartIndex = 0) => published = <<>>
        /\ (published # <<>>) =>
               /\ published[1].msg = frames[StartIndex]
               /\ ~published[1].paced
        /\ pc \in {"Loop", "PlayNext", "Wait", "Finished"} =>
               /\ published # <<>>
               /\ p.firstMsgMillis = published[1].msg.Millis
               /\ p.firstMsgWallclock >= published[1].at
C4_Witness ==
    /\ startTimeSec = 2 /\ Len(frames) = 3 /\ StartIndex = 3
    /\ Rel(2) = 1000 /\ Rel(3) = 2000
    /\ pc = "Finished" /\ Pubs = <<frames[3]>>
    /\ published[1].at = 0

\* C5: with end offset E > 0 a frame read by PlayNextMessage whose relative
\* timestamp is above E*1000 is not published and ends the replay, and a
\* frame at exactly E*1000 is published
C5_EndOffsetStops ==
    (endTimeSec > 0 /\ StartIndex > 0) =>
        /\ \A i \in 2..Len(published) :
               published[i].msg.Millis - frames[1].Millis <= endTimeSec * 1000
        /\ IsPrefix(Pubs, SubSeq(frames, StartIndex, StopIndex))
        /\ pc = "Finished" => Pubs = SubSeq(frames, StartIndex, StopIndex)
C5_Witness ==
    /\ endTimeSec = 1 /\ startTimeSec = 0 /\ pc = "Finished"
    /\ Len(frames) = 3 /\ Rel(2) = 1000 /\ Rel(3) > 1000
    /\ Pubs = SubSeq(frames, 1, 2)

\* C18: once PlayNextMessage has returned false (end of stream, or a frame
\* past the end offset), main does not call it again: no further frame is
\* read and no further message is published, and the replay finishes
C18_FinishedIsTerminal ==
    [][~messagesLeft => /\ pos' = pos
                        /\ published' = published
                        /\ ~messagesLeft'
                        /\ pc' \in {"Loop", "Finished"}]_vars
C18_Witness ==
    /\ pc = "Finished" /\ ~messagesLeft
    /\ len = -1 /\ pos = Len(file)
    /\ Len(frames) = 2 /\ Len(published) = 2

\* C23: the fast-forward loop of Init stops when it hits the end of the
\* stream: it is never at its loop head with readEntry's end-of-stream
\* result in hand and its exit test false (from there the loop reads at the
\* end of the file again, with the same result, for ever)
C23_FastForwardStopsAtEndOfStream ==
    ~(/\ pc = "FastForward"
      /\ len < 0
      /\ msg.Millis - p.recordingStartTime < startTimeSec * 1000)

\* s is a subsequence of t
RECURSIVE IsSubseq(_, _)
IsSubseq(s, t) ==
    IF s = <<>> THEN TRUE
    ELSE IF t = <<>> THEN FALSE
    ELSE IF Head(s) = Head(t) THEN IsSubseq(Tail(s), Tail(t))
    ELSE IsSubseq(s, Tail(t))

\* the (topic, payload) pairs of a sequence of messages
PairsOf(ms) == [i \in 1..Len(ms) |-> [Topic |-> ms[i].Topic, Payload |-> ms[i].Payload]]

\* C24: the (topic, payload) pairs published are a subsequence of those of
\* the frames of the file; the zero-value message readEntry returns at the
\* end of the stream is never published
C24_PublishedAreFramesOfFile ==
    /\ IsSubseq(PairsOf(Pubs), PairsOf(frames))
    /\ \A i \in 1..Len(published) : \E j \in 1..Len(frames) : published[i].msg = frames[j]

\* C25: with end offset E > 0 every message published, the one published by
\* Init included, has a relative timestamp within [S*1000, E*1000], and
\* nothing is published when S > E
C25_PublishedWithinInterval ==
    (endTimeSec > 0) =>
        /\ \A i \in 1..Len(published) :
               LET rel == published[i].msg.Millis - p.recordingStartTime IN
               /\ rel >= startTimeSec * 1000
               /\ rel <= endTimeSec * 1000
        /\ (startTimeSec > endTimeSec) => published = <<>>

\* C27: at every point of the two replays run side by side, the inline
\* version has read the same entries, has published the same messages at the
\* same times, waits for the same target time, and is finished (or ended by
\* a fatal error) exactly when the Playback-struct version is
InlinePcOf ==
    IF pc = "Loop" /\ ~messagesLeft THEN "Break" ELSE pc

C27_InlineEquivalent ==
    /\ inl.pc = InlinePcOf
    /\ inl.published = published
    /\ inl.targetWallclock = targetWallclock
    /\ inl.pos = pos /\ inl.msg = msg /\ inl.len = len
    /\ inl.recordingStartTime = p.recordingStartTime
    /\ inl.firstMsgMilis = p.firstMsgMillis
    /\ inl.firstMsgWallclock = p.firstMsgWallclock
C27_Witness ==
    /\ pc = "Finished" /\ inl.pc = "Finished"
    /\ startTimeSec = 1 /\ endTimeSec = 1
    /\ Len(frames) = 3 /\ Rel(2) = 500 /\ Rel(3) = 1500
    /\ Len(inl.published) = 1
    /\ inl.published[1].msg = frames[3]

Failed == { i \in 1..Len(published) : ~published[i].ok }

\* C16: a publish that fails is logged and does not end the replay: the
\* message is not published again and the replay goes on with the next frame
C16_PublishFailureLoggedAndSkipped ==
    ("publish" \in faults /\ StartIndex > 0) =>
        /\ Len(log) >= Cardinality(Failed)
        /\ pc # "Fatal"
        /\ IsPrefix(Pubs, SubSeq(frames, StartIndex, Len(frames)))

(***************************************************************************)
(* Properties of readEntry (SpecRead).                                     *)
(***************************************************************************)
\* the number of frames of the file that are whole and well-formed and
\* precede any damage
IntactFrames ==
    CASE damage.kind = "none"      -> Len(frames)
      [] damage.kind = "truncated" -> Len(frames) - 1
      [] OTHER                     -> damage.at - 1

Malformed == {"zero_len", "neg_len", "bad_msg"}

\* C6: readEntry returns the end-of-stream signal (-1), and the process does
\* not end, past the last valid frame, on a 0-byte file, and on a file whose
\* last frame is cut at any byte position inside it
C6_TruncationIsEndOfStream ==
    damage.kind \in {"none", "truncated"} =>
        /\ pc # "fatal"
        /\ \A i \in 1..Len(entries) :
               IF i <= IntactFrames THEN entries[i].msg = frames[i]
                                    ELSE entries[i].len = -1

Order_Unordered == FALSE

Order == TRUE

\* the session from the point where main has created the file, connected
\* and subscribed, in an environment without faults
InitRec ==
    /\ file = <<>>
    /\ now = BaseMillis
    /\ frames = <<>>
    /\ damage = NoDamage
    /\ NoPlayer
    /\ ctl = NoCtl
    /\ recState = "running"
    /\ hs = [h \in 1..MaxHandlers |-> IdleHandler]
    /\ msgCnt = 0
    /\ handled = <<>>
    /\ arrived = 0
    /\ fd = "open"
    /\ wrErrs = 0
    /\ msgStats = NoStats
    /\ NoReports
    /\ NoWaitGroup
    /\ statsOutput = FALSE
    /\ faults = NoFaults
    /\ log = <<>>

\* buf_payload of an invocation: msgpack.Marshal(&MqttMessage{t, topic, payload})
buf_payload(h) == Marshal(MqttMessage(hs[h].t, hs[h].topic, hs[h].payload))

\* buf_size without make([]byte, binary.MaxVarintLen64): the varint's own bytes
buf_size_Unpadded(h) == PutUvarint(ZigZag(Len(buf_payload(h))))

\* buf_size of an invocation: PutVarint of size := int64(len(buf_payload))
buf_size(h) == PutVarint(Len(buf_payload(h)))

\* the router calls message_handler(client, msg) on goroutine h, the first
\* that is free: t := nowMillis(); topic; payload; msgCnt++; Marshal; PutVarint.
\* msgCnt++ is a load and a store with no synchronisation with main's
\* `msgCnt = 0`: when main's store falls between the two, the handler's
\* store overwrites it (the reset is lost)
HandlerStart(h) ==
    /\ recState = "running"
    /\ arrived < MaxMsgs
    /\ hs[h].pc = "idle"
    /\ \A g \in 1..(h - 1) : hs[g].pc # "idle"
    /\ Order => \A g \in 1..MaxHandlers : hs[g].pc = "idle"
    /\ \E b \in Bodies :
          hs' = [hs EXCEPT ![h] = [pc |-> "write_size", t |-> now,
                                   topic |-> b.Topic, payload |-> b.Payload]]
    /\ \E lost \in (IF mainPc = "reset" THEN BOOLEAN ELSE {FALSE}) :
          /\ msgCnt' = msgCnt + 1
          /\ mainPc' = IF lost THEN "sleep" ELSE mainPc
          /\ sleepUntil' = IF lost THEN now + msgStatsTime * 1000 ELSE sleepUntil
    /\ arrived' = arrived + 1
    /\ UNCHANGED <<fileVars, handled, recState, fd, wrErrs, msgStats>>
    /\ UNCHANGED <<statsOutput, sigPc, reported>>
    /\ UNCHANGED wgVars
    /\ UNCHANGED playVars
    /\ UNCHANGED ctlVars
    /\ UNCHANGED envVars
    /\ UNCHANGED inlVars

\* file.Write(b) on the open output file: all of b and a nil error, or, when
\* writes fail in this environment, an error after none or one of its bytes
FileWrite(b) ==
    { [bytes |-> b, err |-> FALSE] }
    \cup { [bytes |-> SubSeq(b, 1, n), err |-> TRUE] :
             n \in IF "write" \in faults /\ wrErrs < MaxWrErrs THEN {0, 1} ELSE {} }

\* file.Write(buf_size), its results not looked at
WriteSize(h) ==
    /\ recState = "running"
    /\ hs[h].pc = "write_size"
    /\ \E w \in FileWrite(buf_size(h)) :
          /\ file' = file \o w.bytes
          /\ wrErrs' = wrErrs + (IF w.err THEN 1 ELSE 0)
    /\ hs' = [hs EXCEPT ![h].pc = "write_payload"]
    /\ UNCHANGED <<now, frames, damage, recState, msgCnt, handled, arrived, fd, msgStats>>
    /\ UNCHANGED repVars
    /\ UNCHANGED wgVars
    /\ UNCHANGED playVars
    /\ UNCHANGED ctlVars
    /\ UNCHANGED envVars
    /\ UNCHANGED inlVars

\* file.Write(buf_payload), its results not looked at
WritePayload(h) ==
    /\ recState = "running"
    /\ hs[h].pc = "write_payload"
    /\ \E w \in FileWrite(buf_payload(h)) :
          /\ file' = file \o w.bytes
          /\ wrErrs' = wrErrs + (IF w.err THEN 1 ELSE 0)
    /\ hs' = [hs EXCEPT ![h].pc = "return"]
    /\ UNCHANGED <<now, frames, damage, recState, msgCnt, handled, arrived, fd, msgStats>>
    /\ UNCHANGED repVars
    /\ UNCHANGED wgVars
    /\ UNCHANGED playVars
    /\ UNCHANGED ctlVars
    /\ UNCHANGED envVars
    /\ UNCHANGED inlVars

(***************************************************************************)
(* The message statistics.  avg is a float64 in the source; here it is the *)
(* exact fraction [num, den] in lowest terms, computed by the source's     *)
(* formula (the rounding of float64 is left out).                          *)
(***************************************************************************)
RECURSIVE GCD(_, _)
GCD(a, b) == IF b = 0 THEN a ELSE GCD(b, a % b)

Fraction(n, d) == LET g == GCD(n, d) IN [num |-> n \div g, den |-> d \div g]

\* StatValues{false, 0, 0, 0}
NewStatValues == [initialized |-> FALSE, min |-> 0, avg |-> Fraction(0, 1), max |-> 0]

\* updateTimeDiffStats that leaves min and max at 0 on the first value
updateTimeDiffStats_NoInitial(stats, currentValue, numMsgs) ==
    LET s2 == [stats EXCEPT !.initialized = TRUE,
                  !.avg = Fraction(stats.avg.num * (numMsgs - 1) + currentValue * stats.avg.den,
                                   stats.avg.den * numMsgs)]
        s3 == [s2 EXCEPT !.min = IF currentValue < s2.min THEN currentValue ELSE s2.min]
    IN  [s3 EXCEPT !.max = IF currentValue > s3.max THEN currentValue ELSE s3.max]

\* (stats *StatValues) updateTimeDiffStats(currentValue, numMsgs): the value
\* of *stats after the call
updateTimeDiffStats(stats, currentValue, numMsgs) ==
    LET s1 == IF ~stats.initialized
              THEN [stats EXCEPT !.min = currentValue, !.max = currentValue,
                                 !.initialized = TRUE]
              ELSE stats
        \* avg*(numMsgs-1)/numMsgs + currentValue/numMsgs
        s2 == [s1 EXCEPT !.avg =
                  Fraction(s1.avg.num * (numMsgs - 1) + currentValue * s1.avg.den,
                           s1.avg.den * numMsgs)]
        s3 == [s2 EXCEPT !.min = IF currentValue < s2.min THEN currentValue ELSE s2.min]
    IN  [s3 EXCEPT !.max = IF currentValue > s3.max THEN currentValue ELSE s3.max]

\* msgStats[topic] = st
MapPut(m, k, v) == [x \in (DOMAIN m) \cup {k} |-> IF x = k THEN v ELSE m[x]]

\* the statistics part of message_handler that counts the first message of
\* a topic like the others
UpdateMsgStats_CountFirst(t, topic, size) ==
    IF topic \notin DOMAIN msgStats
    THEN MapPut(msgStats, topic,
                [LastMsgMillis |-> t, NumMsgs |-> 1,
                 TimeDiffMillis |-> NewStatValues, MsgSizeByte |-> NewStatValues])
    ELSE LET stats    == msgStats[topic]
             NumMsgs  == stats.NumMsgs + 1
             timeDiff == t - stats.LastMsgMillis
         IN  MapPut(msgStats, topic,
                [LastMsgMillis |-> t, NumMsgs |-> NumMsgs,
                 TimeDiffMillis |-> updateTimeDiffStats(stats.TimeDiffMillis, timeDiff, NumMsgs),
                 MsgSizeByte |-> updateTimeDiffStats(stats.MsgSizeByte, size, NumMsgs)])

\* the statistics part of message_handler: the value of msgStats after it.
\* (timeDiff is uint64(t) - stats.LastMsgMillis; the clock never goes back,
\* so the subtraction does not wrap.)
UpdateMsgStats(t, topic, size) ==
    IF topic \notin DOMAIN msgStats
    THEN MapPut(msgStats, topic,
                [LastMsgMillis |-> t, NumMsgs |-> 0,
                 TimeDiffMillis |-> NewStatValues, MsgSizeByte |-> NewStatValues])
    ELSE LET stats    == msgStats[topic]
             NumMsgs  == stats.NumMsgs + 1
             timeDiff == t - stats.LastMsgMillis
         IN  MapPut(msgStats, topic,
                [LastMsgMillis |-> t, NumMsgs |-> NumMsgs,
                 TimeDiffMillis |-> updateTimeDiffStats(stats.TimeDiffMillis, timeDiff, NumMsgs),
                 MsgSizeByte |-> updateTimeDiffStats(stats.MsgSizeByte, size, NumMsgs)])

\* the rest of message_handler (the message statistics), and its return
HandlerReturn(h) ==
    /\ recState = "running"
    /\ hs[h].pc = "return"
    /\ msgStats' = UpdateMsgStats(hs[h].t, hs[h].topic, Len(buf_payload(h)))
    /\ handled' = Append(handled, MqttMessage(hs[h].t, hs[h].topic, hs[h].payload))
    /\ hs' = [hs EXCEPT ![h] = IdleHandler]
    /\ UNCHANGED <<fileVars, recState, msgCnt, arrived, fd, wrErrs>>
    /\ UNCHANGED repVars
    /\ UNCHANGED wgVars
    /\ UNCHANGED playVars
    /\ UNCHANGED ctlVars
    /\ UNCHANGED envVars
    /\ UNCHANGED inlVars

\* a goroutine is inside printMsgStats (it iterates over msgStats)
Printing == mainPc = "print" \/ sigPc = "print"

\* the statistics section of message_handler (a read and a write of the map
\* msgStats) while another goroutine iterates over the map in printMsgStats:
\* a data race, which the runtime may detect; it then ends the process
MapRace(h) ==
    /\ recState = "running"
    /\ hs[h].pc = "return"
    /\ Printing
    /\ recState' = "crashed"
    /\ log' = Append(log, "fatal error: concurrent map iteration and map write")
    /\ UNCHANGED <<fileVars, hs, msgCnt, handled, arrived, fd, wrErrs, msgStats, faults>>
    /\ UNCHANGED repVars
    /\ UNCHANGED wgVars
    /\ UNCHANGED playVars
    /\ UNCHANGED ctlVars
    /\ UNCHANGED inlVars

\* the signal goroutine: for range signalChannel receives the interrupt and
\* calls printMsgStats(msgStats)
Interrupt ==
    /\ recState = "running"
    /\ sigPc = "wait"
    /\ sigPc' = "print"
    /\ UNCHANGED <<fileVars, recState, hs, msgCnt, handled, arrived, fd, wrErrs, msgStats>>
    /\ UNCHANGED <<statsOutput, mainPc, sleepUntil, reported>>
    /\ UNCHANGED wgVars
    /\ UNCHANGED playVars
    /\ UNCHANGED ctlVars
    /\ UNCHANGED envVars
    /\ UNCHANGED inlVars

\* the signal goroutine: printMsgStats returns; os.Exit(0)
\* (os.Exit does not run main's deferred file.Close and client.Disconnect)
SignalExit ==
    /\ recState = "running"
    /\ sigPc = "print"
    /\ recState' = "exited"
    /\ UNCHANGED <<fileVars, hs, msgCnt, handled, arrived, fd, wrErrs, msgStats>>
    /\ UNCHANGED repVars
    /\ UNCHANGED wgVars
    /\ UNCHANGED playVars
    /\ UNCHANGED ctlVars
    /\ UNCHANGED envVars
    /\ UNCHANGED inlVars

\* main's loop: time.Sleep(msgStatsTime) returns; with verbosity 1 (the
\* default) log.Printf("Recorded %4d messages ...", msgCnt) and, with -s,
\* the call of printMsgStats(msgStats)
ReportLoop ==
    /\ recState = "running"
    /\ mainPc = "sleep"
    /\ now >= sleepUntil
    /\ reported' = reported + msgCnt
    /\ mainPc' = IF statsOutput THEN "print" ELSE "reset"
    /\ UNCHANGED <<fileVars, recState, hs, msgCnt, handled, arrived, fd, wrErrs, msgStats>>
    /\ UNCHANGED <<statsOutput, sleepUntil, sigPc>>
    /\ UNCHANGED wgVars
    /\ UNCHANGED playVars
    /\ UNCHANGED ctlVars
    /\ UNCHANGED envVars
    /\ UNCHANGED inlVars

\* main's loop: printMsgStats returns
ReportPrinted ==
    /\ recState = "running"
    /\ mainPc = "print"
    /\ mainPc' = "reset"
    /\ UNCHANGED <<fileVars, recState, hs, msgCnt, handled, arrived, fd, wrErrs, msgStats>>
    /\ UNCHANGED <<statsOutput, sleepUntil, sigPc, reported>>
    /\ UNCHANGED wgVars
    /\ UNCHANGED playVars
    /\ UNCHANGED ctlVars
    /\ UNCHANGED envVars
    /\ UNCHANGED inlVars

\* main's loop: msgCnt = 0, and back to time.Sleep
ReportReset ==
    /\ recState = "running"
    /\ mainPc = "reset"
    /\ msgCnt' = 0
    /\ mainPc' = "sleep"
    /\ sleepUntil' = now + msgStatsTime * 1000
    /\ UNCHANGED <<fileVars, recState, hs, handled, arrived, fd, wrErrs, msgStats>>
    /\ UNCHANGED <<statsOutput, sigPc, reported>>
    /\ UNCHANGED wgVars
    /\ UNCHANGED playVars
    /\ UNCHANGED ctlVars
    /\ UNCHANGED envVars
    /\ UNCHANGED inlVars

\* the wall clock advances (it never goes back) while the recorder runs
RecTick ==
    /\ recState = "running"
    /\ now < BaseMillis + MaxRecTicks * TickStep
    /\ now' = now + TickStep
    /\ UNCHANGED <<file, frames, damage>>
    /\ UNCHANGED playVars
    /\ UNCHANGED ctlVars
    /\ UNCHANGED recVars
    /\ UNCHANGED envVars
    /\ UNCHANGED inlVars

NextRec ==
    \/ \E h \in 1..MaxHandlers : HandlerStart(h)
    \/ \E h \in 1..MaxHandlers : WriteSize(h)
    \/ \E h \in 1..MaxHandlers : WritePayload(h)
    \/ \E h \in 1..MaxHandlers : HandlerReturn(h)
    \/ \E h \in 1..MaxHandlers : MapRace(h)
    \/ Interrupt
    \/ SignalExit
    \/ RecTick

SpecRec == InitRec /\ [][NextRec]_vars

(***************************************************************************)
(* SpecRecLong: a recording session that lasts for up to MaxReports        *)
(* intervals of msgStatsTime seconds, with or without -s: main's report    *)
(* loop runs beside message_handler and the signal goroutine.              *)
(***************************************************************************)
\* the wall clock reaches the time at which main's time.Sleep returns
SleepTick ==
    /\ recState = "running"
    /\ mainPc = "sleep"
    /\ now < sleepUntil
    /\ sleepUntil <= BaseMillis + MaxReports * msgStatsTime * 1000
    /\ now' = sleepUntil
    /\ UNCHANGED <<file, frames, damage>>
    /\ UNCHANGED playVars
    /\ UNCHANGED ctlVars
    /\ UNCHANGED recVars
    /\ UNCHANGED envVars
    /\ UNCHANGED inlVars

InitRecLong ==
    /\ file = <<>>
    /\ now = BaseMillis
    /\ frames = <<>>
    /\ damage = NoDamage
    /\ NoPlayer
    /\ ctl = NoCtl
    /\ recState = "running"
    /\ hs = [h \in 1..MaxHandlers |-> IdleHandler]
    /\ msgCnt = 0
    /\ handled = <<>>
    /\ arrived = 0
    /\ fd = "open"
    /\ wrErrs = 0
    /\ msgStats = NoStats
    /\ NoReports
    /\ NoWaitGroup
    /\ statsOutput \in BOOLEAN
    /\ faults = NoFaults
    /\ log = <<>>

NextRecLong ==
    \/ ReportLoop
    \/ ReportPrinted
    \/ ReportReset
    \/ SleepTick
    \/ NextRec

SpecRecLong == InitRecLong /\ [][NextRecLong]_vars

(***************************************************************************)
(* SpecWg: mqtt-record in the version with the WaitGroup.  main does       *)
(* wg.Add(1) and starts the signal goroutine, which calls wg.Done() for    *)
(* every signal; mqtt_record creates the file, connects, subscribes and    *)
(* blocks in wg.Wait(); when it returns, its deferred client.Disconnect    *)
(* and f.Close run and main calls os.Exit(0).                              *)
(***************************************************************************)
\* the session from the point where mqtt_record has subscribed and is in
\* wg.Wait(), in an environment without faults
InitWg ==
    /\ file = <<>>
    /\ now = BaseMillis
    /\ frames = <<>>
    /\ damage = NoDamage
    /\ NoPlayer
    /\ ctl = NoCtl
    /\ recState = "none"
    /\ hs = [h \in 1..MaxHandlers |-> IdleHandler]
    /\ msgCnt = 0
    /\ handled = <<>>
    /\ arrived = 0
    /\ fd = "open"
    /\ wrErrs = 0
    /\ msgStats = NoStats
    /\ NoReports
    /\ statsOutput = FALSE
    /\ wg = 1
    /\ recordPc = "wait"
    /\ sigs = 0
    /\ faults = NoFaults
    /\ log = <<>>

\* the process runs
WgAlive == recordPc \in {"wait", "leave", "disconnected", "closed"}

\* the router calls message_handler(client, msg): t := millis(); topic;
\* payload; Marshal; PutVarint
WgHandlerStart(h) ==
    /\ recordPc \in {"wait", "leave"}
    /\ arrived < MaxMsgs
    /\ hs[h].pc = "idle"
    /\ \A g \in 1..(h - 1) : hs[g].pc # "idle"
    /\ Order => \A g \in 1..MaxHandlers : hs[g].pc = "idle"
    /\ \E b \in Bodies :
          hs' = [hs EXCEPT ![h] = [pc |-> "write_size", t |-> now,
                                   topic |-> b.Topic, payload |-> b.Payload]]
    /\ arrived' = arrived + 1
    /\ UNCHANGED <<fileVars, recState, msgCnt, handled, fd, wrErrs, msgStats>>
    /\ UNCHANGED <<repVars, wgVars>>
    /\ UNCHANGED playVars
    /\ UNCHANGED ctlVars
    /\ UNCHANGED envVars
    /\ UNCHANGED inlVars

\* file.Write(b), its results not looked at: on the closed file it writes
\* nothing
WgWrite(b) == IF fd = "open" THEN file \o b ELSE file

\* file.Write(buf_size)
WgWriteSize(h) ==
    /\ WgAlive
    /\ hs[h].pc = "write_size"
    /\ file' = WgWrite(buf_size(h))
    /\ hs' = [hs EXCEPT ![h].pc = "write_payload"]
    /\ UNCHANGED <<now, frames, damage, recState, msgCnt, handled, arrived, fd, wrErrs,
                   msgStats>>
    /\ UNCHANGED <<repVars, wgVars>>
    /\ UNCHANGED playVars
    /\ UNCHANGED ctlVars
    /\ UNCHANGED envVars
    /\ UNCHANGED inlVars

\* file.Write(buf_payload); file.Sync(); the handler returns
WgWritePayload(h) ==
    /\ WgAlive
    /\ hs[h].pc = "write_payload"
    /\ file' = WgWrite(buf_payload(h))
    /\ handled' = Append(handled, MqttMessage(hs[h].t, hs[h].topic, hs[h].payload))
    /\ hs' = [hs EXCEPT ![h] = IdleHandler]
    /\ UNCHANGED <<now, frames, damage, recState, msgCnt, arrived, fd, wrErrs, msgStats>>
    /\ UNCHANGED <<repVars, wgVars>>
    /\ UNCHANGED playVars
    /\ UNCHANGED ctlVars
    /\ UNCHANGED envVars
    /\ UNCHANGED inlVars

\* the signal goroutine: for sig := range c { fmt.Println("", sig); wg.Done() }.
\* wg.Done() on a counter of 0 panics ("sync: negative WaitGroup counter"),
\* which ends the process without running mqtt_record's deferred calls
WgSignal ==
    /\ WgAlive
    /\ sigs < MaxSignals
    /\ sigs' = sigs + 1
    /\ wg' = wg - 1
    /\ IF wg - 1 < 0
       THEN /\ recordPc' = "panic"
            /\ log' = Append(log, "panic: sync: negative WaitGroup counter")
       ELSE UNCHANGED <<recordPc, log>>
    /\ UNCHANGED <<fileVars, recState, hs, msgCnt, handled, arrived, fd, wrErrs, msgStats,
                   faults>>
    /\ UNCHANGED repVars
    /\ UNCHANGED playVars
    /\ UNCHANGED ctlVars
    /\ UNCHANGED inlVars

\* wg.Wait() returns once the counter is 0; fmt.Println("mqtt_record() : leave...")
WgWait ==
    /\ recordPc = "wait"
    /\ wg = 0
    /\ recordPc' = "leave"
    /\ UNCHANGED <<wg, sigs>>
    /\ UNCHANGED <<fileVars, recState, hs, msgCnt, handled, arrived, fd, wrErrs, msgStats>>
    /\ UNCHANGED repVars
    /\ UNCHANGED playVars
    /\ UNCHANGED ctlVars
    /\ UNCHANGED envVars
    /\ UNCHANGED inlVars

\* mqtt_record returns: the deferred client.Disconnect(100) runs first
WgDisconnect ==
    /\ recordPc = "leave"
    /\ recordPc' = "disconnected"
    /\ UNCHANGED <<wg, sigs>>
    /\ UNCHANGED <<fileVars, recState, hs, msgCnt, handled, arrived, fd, wrErrs, msgStats>>
    /\ UNCHANGED repVars
    /\ UNCHANGED playVars
    /\ UNCHANGED ctlVars
    /\ UNCHANGED envVars
    /\ UNCHANGED inlVars

\* then the deferred f.Close()
WgClose ==
    /\ recordPc = "disconnected"
    /\ recordPc' = "closed"
    /\ fd' = "closed"
    /\ UNCHANGED <<wg, sigs>>
    /\ UNCHANGED <<fileVars, recState, hs, msgCnt, handled, arrived, wrErrs, msgStats>>
    /\ UNCHANGED repVars
    /\ UNCHANGED playVars
    /\ UNCHANGED ctlVars
    /\ UNCHANGED envVars
    /\ UNCHANGED inlVars

\* back in main: os.Exit(0)
WgExit ==
    /\ recordPc = "closed"
    /\ recordPc' = "exited"
    /\ UNCHANGED <<wg, sigs>>
    /\ UNCHANGED <<fileVars, recState, hs, msgCnt, handled, arrived, fd, wrErrs, msgStats>>
    /\ UNCHANGED repVars
    /\ UNCHANGED playVars
    /\ UNCHANGED ctlVars
    /\ UNCHANGED envVars
    /\ UNCHANGED inlVars

NextWg ==
    \/ \E h \in 1..MaxHandlers : WgHandlerStart(h)
    \/ \E h \in 1..MaxHandlers : WgWriteSize(h)
    \/ \E h \in 1..MaxHandlers : WgWritePayload(h)
    \/ WgSignal
    \/ WgWait
    \/ WgDisconnect
    \/ WgClose
    \/ WgExit

SpecWg == InitWg /\ [][NextWg]_vars

(***************************************************************************)
(* SpecRecMain: mqtt-record from the start of main, in an environment in   *)
(* which one kind of operation may fail: creating the file, connecting,    *)
(* subscribing, or writing to the file.                                    *)
(***************************************************************************)
RecFaults == { NoFaults, {"create"}, {"connect"}, {"subscribe"}, {"write"} }

InitRecMain ==
    /\ file = <<>>
    /\ now = BaseMillis
    /\ frames = <<>>
    /\ damage = NoDamage
    /\ NoPlayer
    /\ ctl = NoCtl
    /\ recState = "create"
    /\ hs = [h \in 1..MaxHandlers |-> IdleHandler]
    /\ msgCnt = 0
    /\ handled = <<>>
    /\ arrived = 0
    /\ fd = "none"
    /\ wrErrs = 0
    /\ msgStats = NoStats
    /\ NoReports
    /\ NoWaitGroup
    /\ statsOutput = FALSE
    /\ faults \in RecFaults
    /\ log = <<>>

\* file, err = os.Create(filename); log.Fatalln on an error; defer file.Close()
RecCreate ==
    /\ recState = "create"
    /\ IF "create" \in faults
       THEN /\ log' = Append(log, "Error opening file for writing:")
            /\ recState' = "fatal"
            /\ UNCHANGED fd
       ELSE /\ fd' = "open"
            /\ recState' = "connect"
            /\ UNCHANGED log
    /\ UNCHANGED <<fileVars, hs, msgCnt, handled, arrived, wrErrs, msgStats, faults>>
    /\ UNCHANGED repVars
    /\ UNCHANGED wgVars
    /\ UNCHANGED playVars
    /\ UNCHANGED ctlVars
    /\ UNCHANGED inlVars

\* client.Connect(); token.Wait(); log.Fatalln on an error
RecConnect ==
    /\ recState = "connect"
    /\ IF "connect" \in faults
       THEN /\ log' = Append(log, "Error connecting to MQTT broker:")
            /\ recState' = "fatal"
       ELSE /\ recState' = "subscribe"
            /\ UNCHANGED log
    /\ UNCHANGED <<fileVars, hs, msgCnt, handled, arrived, fd, wrErrs, msgStats, faults>>
    /\ UNCHANGED repVars
    /\ UNCHANGED wgVars
    /\ UNCHANGED playVars
    /\ UNCHANGED ctlVars
    /\ UNCHANGED inlVars

\* client.Subscribe(topic, 0, nil); token.Wait(); log.Fatalln on an error
RecSubscribe ==
    /\ recState = "subscribe"
    /\ IF "subscribe" \in faults
       THEN /\ log' = Append(log, "Error subscribing to MQTT topic:")
            /\ recState' = "fatal"
       ELSE /\ recState' = "running"
            /\ UNCHANGED log
    /\ UNCHANGED <<fileVars, hs, msgCnt, handled, arrived, fd, wrErrs, msgStats, faults>>
    /\ UNCHANGED repVars
    /\ UNCHANGED wgVars
    /\ UNCHANGED playVars
    /\ UNCHANGED ctlVars
    /\ UNCHANGED inlVars

NextRecMain ==
    \/ RecCreate
    \/ RecConnect
    \/ RecSubscribe
    \/ NextRec

SpecRecMain == InitRecMain /\ [][NextRecMain]_vars

(***************************************************************************)
(* Properties of the recorder (SpecRec).                                   *)
(***************************************************************************)
Idle == \A h \in 1..MaxHandlers : hs[h].pc = "idle"

\* what successive readEntry calls on file f return from offset `at`, up to
\* and including the first that is no message (outcome "eof": the
\* end-of-stream signal; "fatal": the process ended)
RECURSIVE ReadAll(_, _, _)
ReadAll(f, at, k) ==
    IF k = 0 THEN <<>>
    ELSE Bind(readEntry(f, at), LAMBDA r :
         << [outcome |-> r.outcome, msg |-> r.msg, len |-> r.len] >>
         \o (IF r.outcome = "ok" THEN ReadAll(f, r.pos, k - 1) ELSE <<>>))

\* the entries of the file that readEntry returns as messages
FileEntries == SelectSeq(ReadAll(file, 0, MaxMsgs + 1),
                         LAMBDA e : e.outcome = "ok")

\* C2: the messages handled, in order, are what successive readEntry calls
\* on the resulting file return, followed by the end-of-stream signal
C2_RecordThenRead ==
    Idle => ReadAll(file, 0, Len(handled) + 1)
            = [i \in 1..Len(handled) |->
                   [outcome |-> "ok", msg |-> handled[i],
                    len |-> Len(Marshal(handled[i]))]]
              \o << [outcome |-> "eof", msg |-> ZeroMessage, len |-> -1] >>
C2_Witness ==
    /\ Idle /\ Len(handled) = 3
    /\ handled[1].Topic = TopicA /\ handled[1].Payload = <<1>>
    /\ handled[2].Topic = TopicB /\ handled[2].Payload = <<>>
    /\ handled[3].Topic = TopicA /\ handled[3].Payload = <<171, 205>>
    /\ handled[3].Millis > handled[1].Millis

InWritePath(h) == hs[h].pc \in {"write_size", "write_payload"}

Written ==
    handled \o (IF \E h \in 1..MaxHandlers : hs[h].pc = "return"
                THEN LET h == CHOOSE g \in 1..MaxHandlers : hs[g].pc = "return"
                     IN  << MqttMessage(hs[h].t, hs[h].topic, hs[h].payload) >>
                ELSE <<>>)

RECURSIVE FramesAligned(_, _)
FramesAligned(at, k) ==
    Bind(readEntry(file, at), LAMBDA r :
    IF r.outcome = "ok"
    THEN /\ k < Len(Written)
         /\ r.len = Len(Marshal(Written[k + 1]))
         /\ r.pos = at + MaxVarintLen64 + r.len
         /\ r.pos = Len(FileOf(SubSeq(Written, 1, k + 1)))
         /\ FramesAligned(r.pos, k + 1)
    ELSE /\ r.outcome = "eof"
         /\ k = Len(Written))

C22_FrameAlignment == FramesAligned(0, 0)
C22_Witness ==
    /\ Len(handled) = 2
    /\ \E h \in 1..MaxHandlers : hs[h].pc = "write_payload"
    /\ Len(Marshal(handled[1])) # Len(Marshal(handled[2]))
    /\ Len(file) = Len(FileOf(handled)) + MaxVarintLen64
    /\ ReadAll(file, 0, 3)[3].outcome = "eof"

\* C21: no goroutine is inside printMsgStats while an invocation of
\* message_handler is in its statistics section (the read and the write of
\* msgStats that follow its two file.Write calls)
InStatistics(h) == hs[h].pc = "return"

C21_StatsSingleOwner ==
    ~(Printing /\ \E h \in 1..MaxHandlers : InStatistics(h))

\* C28: whenever main is between two iterations of its report loop, the
\* interval counts logged so far and the current msgCnt add up to the number
\* of messages message_handler has counted
C28_IntervalCountsLoseNothing ==
    (mainPc = "sleep") => reported + msgCnt = arrived

\* C26: in the recorder with the WaitGroup the counter never goes below 0,
\* whatever the number of signals, and the process ends only by os.Exit(0)
\* after client.Disconnect and the Close of the file
C26_WaitGroupNeverNegative ==
    /\ wg >= 0
    /\ recordPc # "panic"
    /\ (recordPc = "exited") => fd = "closed"

\* C10: once the recorder process has ended, the file is a sequence of whole
\* frames, each a 10-byte length prefix and that many message bytes
RECURSIVE WholeFrames(_, _)
WholeFrames(f, at) ==
    \/ at = Len(f)
    \/ /\ Len(f) - at >= MaxVarintLen64
       /\ LET size == Varint(SubSeq(f, at + 1, at + MaxVarintLen64)) IN
          /\ size >= 0
          /\ Len(f) - at - MaxVarintLen64 >= size
          /\ WholeFrames(f, at + MaxVarintLen64 + size)

C10_NoPartialFrameAtExit ==
    recState = "exited" => WholeFrames(file, 0)

\* the messages handled on a topic, in order; the frame sizes and timestamp
\* differences of the 2nd, 3rd, ... of them
OnTopic(topic) == SelectSeq(handled, LAMBDA m : m.Topic = topic)
SizesOf(ms)  == [i \in 1..(Len(ms) - 1) |-> Len(Marshal(ms[i + 1]))]
DeltasOf(ms) == [i \in 1..(Len(ms) - 1) |-> ms[i + 1].Millis - ms[i].Millis]

RECURSIVE SumOf(_)
SumOf(xs) == IF xs = <<>> THEN 0 ELSE Head(xs) + SumOf(Tail(xs))
MinOf(xs) == CHOOSE x \in {xs[i] : i \in 1..Len(xs)} : \A i \in 1..Len(xs) : x <= xs[i]
MaxOf(xs) == CHOOSE x \in {xs[i] : i \in 1..Len(xs)} : \A i \in 1..Len(xs) : x >= xs[i]

\* st.avg is the mean of xs
IsMeanOf(st, xs) == st.avg.num * Len(xs) = SumOf(xs) * st.avg.den

Topics == { b.Topic : b \in Bodies }

\* C19: a topic has an entry once a message on it was handled; the first
\* message only initializes it (NumMsgs 0, LastMsgMillis its timestamp, both
\* StatValues untouched); after k messages NumMsgs is k - 1, LastMsgMillis
\* the timestamp of the k-th, and both averages are the means over the
\* 2nd..k-th messages
C19_FirstMessageExempt ==
    \A topic \in Topics :
        LET ms == OnTopic(topic)  k == Len(ms) IN
        /\ (k = 0) <=> (topic \notin DOMAIN msgStats)
        /\ (k >= 1) =>
               /\ msgStats[topic].NumMsgs = k - 1
               /\ msgStats[topic].LastMsgMillis = ms[k].Millis
        /\ (k = 1) =>
               /\ msgStats[topic].TimeDiffMillis = NewStatValues
               /\ msgStats[topic].MsgSizeByte = NewStatValues
        /\ (k >= 2) =>
               /\ msgStats[topic].TimeDiffMillis.initialized
               /\ msgStats[topic].MsgSizeByte.initialized
               /\ IsMeanOf(msgStats[topic].TimeDiffMillis, DeltasOf(ms))
               /\ IsMeanOf(msgStats[topic].MsgSizeByte, SizesOf(ms))
C19_Witness ==
    /\ DOMAIN msgStats = {TopicA} /\ Len(handled) = 3
    /\ msgStats[TopicA].NumMsgs = 2
    /\ msgStats[TopicA].TimeDiffMillis.avg = [num |-> 250, den |-> 1]
    /\ msgStats[TopicA].MsgSizeByte.avg = [num |-> 73, den |-> 2]

\* C20: for a topic with two or more messages, min and max of the deltas
\* are the least and the greatest difference of consecutive timestamps on
\* the topic, min and max of the sizes the least and the greatest frame size
\* of the 2nd..k-th messages; and min <= max in every entry
C20_MinMaxOfValues ==
    \A topic \in DOMAIN msgStats :
        LET ms == OnTopic(topic)  st == msgStats[topic] IN
        /\ st.TimeDiffMillis.min <= st.TimeDiffMillis.max
        /\ st.MsgSizeByte.min <= st.MsgSizeByte.max
        /\ (Len(ms) >= 2) =>
               /\ st.TimeDiffMillis.min = MinOf(DeltasOf(ms))
               /\ st.TimeDiffMillis.max = MaxOf(DeltasOf(ms))
               /\ st.MsgSizeByte.min = MinOf(SizesOf(ms))
               /\ st.MsgSizeByte.max = MaxOf(SizesOf(ms))
C20_Witness ==
    /\ TopicA \in DOMAIN msgStats /\ msgStats[TopicA].NumMsgs = 2
    /\ msgStats[TopicA].TimeDiffMillis.min = 0
    /\ msgStats[TopicA].TimeDiffMillis.max = 500
    /\ msgStats[TopicA].MsgSizeByte.min = 36
    /\ msgStats[TopicA].MsgSizeByte.max = 37

\* C12: when the recorder has ended on an interrupt, the output file has been
\* closed, and nothing is written to the file after the interrupt was handled
C12_InterruptClosesFile ==
    /\ [](recState = "exited" => fd = "closed")
    /\ [][recState = "exited" => file' = file]_vars

(***************************************************************************)
(* SpecStartup: a session of either tool from the start of its main, in an *)
(* environment in which a startup operation may fail.                      *)
(***************************************************************************)
InitStartup ==
    \/ InitMain /\ "publish" \notin faults
    \/ InitRecMain /\ "write" \notin faults

NextStartup ==
    \/ NextMain
    \/ NextRecMain

SpecStartup == InitStartup /\ [][NextStartup]_vars

\* C17: when opening the input file or connecting fails, the player reads no
\* frame and publishes nothing, and ends with a diagnostic; when connecting
\* or subscribing fails, the recorder handles no message and writes nothing
\* to the output file, and ends with a diagnostic
C17_StartupFailureIsFatal ==
    /\ (pc # "none" /\ faults \cap {"open", "connect"} # {}) =>
           /\ pc \in {"Open", "Connect", "Fatal"}
           /\ pos = 0 /\ msg = ZeroMessage /\ published = <<>>
           /\ (pc = "Fatal") => log # <<>>
    /\ (recState # "none" /\ faults \cap {"connect", "subscribe"} # {}) =>
           /\ recState \in {"create", "connect", "subscribe", "fatal"}
           /\ file = <<>> /\ arrived = 0 /\ handled = <<>>
           /\ (recState = "fatal") => log # <<>>
C17_Witness ==
    /\ pc = "Fatal" /\ faults = {"connect"}
    /\ Len(frames) = 3 /\ pos = 0 /\ published = <<>>
    /\ log = << "Error connecting to MQTT broker:" >>

(***************************************************************************)
(* Properties of the recorder in an environment with faults (SpecRecMain). *)
(***************************************************************************)
\* C11: once a file.Write of a frame has returned an error, the session has
\* ended with a diagnostic, and nothing is appended to the file afterwards
C11_WriteFailureEndsSession ==
    /\ [](wrErrs > 0 => (recState = "fatal" /\ log # <<>>))
    /\ [][wrErrs > 0 => file' = file]_vars

====
